---- MODULE Spec2Model ----
(***************************************************************************)
(* Retrieval-and-answer core of ui_legal_rag: the disk cache, the          *)
(* single-scope search and the multi-account aggregator of                 *)
(* backend/rag_client.py on top of the pipeline of backend/legal_rag.py.   *)
(*                                                                         *)
(* Conventions.  Optional[str] is a sequence of length <= 1: None is <<>>, *)
(* the string s is <<s>>.  A call that may raise yields a record           *)
(* [raised, exc, value].  Distances, relevance scores and min_relevance    *)
(* are kept in hundredths (distance 0.10 is 10), times in milliseconds.    *)
(* An MD5 digest is written as its preimage wrapped in "md5(...)": two     *)
(* digests are equal exactly when the hashed strings are.                  *)
(***************************************************************************)
EXTENDS Integers, Sequences, FiniteSets, TLC

VARIABLES
    use_cache,    \* RAGClient.use_cache
    cache_dir,    \* the files of RAGClient.cache_dir: path -> content
    op,           \* the call that has just returned to the caller (with the
                  \* files it found in cache_dir as op.before), or NoOp
    last_search,  \* request of the latest search_documents run with caching on
    dir_at_disable, \* the files of cache_dir when caching was last switched off
    threads,      \* per script thread, where it stands in the cache code
    session_state, \* st.session_state of one browser session: key -> value
    screen,       \* what the latest script run of that session drew
    latest_search \* the latest search the search page stored a result of

vars == <<use_cache, cache_dir, op, last_search, dir_at_disable, threads,
          session_state, screen, latest_search>>

\* ---------------------------------------------------------------- bounds
MaxChunks == 2      \* largest top_k asked for, so longest neighbour list
MaxClients == 2     \* longest account list given to search_multiple_clients
MaxTexts == 2       \* longest list of texts given to get_text_embedding
MaxThreads == 2     \* script threads (browser sessions) sharing the cache directory

\* ------------------------------------------------------- Python values
None == <<>>
Some(s) == <<s>>
Truthy(o) == o # None /\ o[1] # ""
Ok(v) == [raised |-> FALSE, exc |-> "", value |-> v]
Raise(e) == [raised |-> TRUE, exc |-> e, value |-> None]
Call(fn, arg) == [fn |-> fn, arg |-> arg]
EmptyDict == [m \in {} |-> None]

\* ------------------------------------------------- retrieved chunks
\* Storage paths seen in chunk metadata: a full s3:// URI, a bare file
\* name (no bucket/key separator) and no path at all.
Metadata(path, text) == [s3_path |-> path, text |-> text]

ChunkNear == [distance |-> 10, metadata |-> Metadata("s3://b/k.pdf", "near")]
ChunkMid == [distance |-> 60, metadata |-> Metadata("k.pdf", "mid")]
ChunkFar == [distance |-> 90, metadata |-> Metadata("", "far")]
ChunkKinds == {ChunkNear, ChunkMid, ChunkFar}

RECURSIVE SeqsUpTo(_, _)
SeqsUpTo(S, n) ==
    IF n = 0 THEN {<<>>}
    ELSE LET shorter == SeqsUpTo(S, n - 1)
         IN  shorter \cup {Append(s, x) : s \in {t \in shorter : Len(t) = n - 1}, x \in S}

\* ------------------------------------------------ outbound services
\* What the embedding endpoint, the vector index and the chat model answer
\* to one call.  An outcome is drawn only for a call that is issued.  elapsed
\* is what the clock shows, since start = time.time(), when the call returns.
EmbedOutcomes == {"ok", "fail"}
LLMOutcomes == {[kind |-> "ok", text |-> " ans [1] "], [kind |-> "ok", text |-> " "],
                [kind |-> "raise", text |-> "llm down"]}
Latencies == {1200}

IndexOutcomes(embedding, top_k) ==
    IF embedding = None
    THEN {[kind |-> "raise", vectors |-> <<>>]}
    ELSE {[kind |-> "raise", vectors |-> <<>>], [kind |-> "novectors", vectors |-> <<>>]}
         \cup {[kind |-> "response", vectors |-> v] : v \in SeqsUpTo(ChunkKinds, top_k)}

IdleEnv == [embed |-> "fail", index |-> [kind |-> "raise", vectors |-> <<>>],
            llm |-> [kind |-> "raise", text |-> ""], elapsed |-> 0]

PipelineEnvs(top_k) ==
    UNION {
      UNION {
        IF ix.vectors = <<>>
        THEN {[embed |-> e, index |-> ix, llm |-> IdleEnv.llm, elapsed |-> t] :
                 t \in Latencies}
        ELSE {[embed |-> e, index |-> ix, llm |-> l, elapsed |-> t] :
                 l \in LLMOutcomes, t \in Latencies}
        : ix \in IndexOutcomes(IF e = "ok" THEN Some("vec") ELSE None, top_k)}
      : e \in EmbedOutcomes}

\* ------------------------------------------- backend/legal_rag.py
\* What the embedding endpoint answers to one POST: a 2xx response whose
\* 'body' field is a JSON string holding 'embeddings' (nested), a 2xx response
\* with 'embeddings' at top level (flat), a 2xx response without a usable
\* embedding, or a transport / non-2xx failure.
EmbedResponses == {"nested", "flat", "malformed", "http_error"}

\* np.array(embedding[0], dtype=np.float32).tolist() for the text
Vector(text) == "vec(" \o text \o ")"

\* legal_rag.py:70-86, the body of try and its except branch for one text:
\* response.json().get('body') is None for a flat response and json.loads(None)
\* raises; every exception ends in the marker None.
EmbedOne(text, response) ==
    IF response = "http_error" THEN None
    ELSE IF response = "flat" THEN None
    ELSE IF response = "malformed" THEN None
    ELSE Some(Vector(text))

\* legal_rag.py:57-86: for text in texts
RECURSIVE EmbedLoop(_, _, _, _, _)
EmbedLoop(texts, responses, i, embeddings, calls) ==
    IF i > Len(texts) THEN [embeddings |-> embeddings, calls |-> calls]
    ELSE EmbedLoop(texts, responses, i + 1,
                   Append(embeddings, EmbedOne(texts[i], responses[i])),
                   Append(calls, Call("embedding", texts[i])))

\* What line 88 hands back for the collected list: its only element, bare,
\* when it has one (is_list FALSE, the element in items), else the list.
ReturnEmbeddings(embeddings) ==
    IF Len(embeddings) = 1 THEN [is_list |-> FALSE, items |-> <<embeddings[1]>>]
    ELSE [is_list |-> TRUE, items |-> embeddings]

\* legal_rag.py:52-88, texts being a list of strings
EmbedTexts(texts, responses) ==
    IF texts = <<>>
    THEN Raise("Input 'texts' must be a non-empty list of strings.") @@ [calls |-> <<>>]
    ELSE Ok(ReturnEmbeddings(EmbedLoop(texts, responses, 1, <<>>, <<>>).embeddings))
            @@ [calls |-> EmbedLoop(texts, responses, 1, <<>>, <<>>).calls]

\* legal_rag.py:48-88 called with one string, as line 92 does: the string is
\* wrapped into a list of one text and the one result is handed back bare.
get_text_embedding(text, env) ==
    [value |-> EmbedTexts(<<text>>,
                          <<IF env.embed = "ok" THEN "nested" ELSE "http_error">>).value.items[1],
     calls |-> <<Call("embedding", text)>>]

FilterExpression(client_account_filter, document_type_filter) ==
    (IF Truthy(client_account_filter) /\ client_account_filter # Some("All")
        THEN {<<"client_account_details", "$in", client_account_filter[1]>>} ELSE {})
    \cup
    (IF Truthy(document_type_filter) /\ document_type_filter # Some("All")
        THEN {<<"document_type", "$eq", document_type_filter[1]>>} ELSE {})

\* The index query without its try/except: the exception of query_vectors
\* leaves the retriever.
query_s3_vector_store_unguarded(query_text, client_account_filter, document_type_filter, top_k, env) ==
    LET emb == get_text_embedding(query_text, env)
        filter_expression == FilterExpression(client_account_filter, document_type_filter)
        final_filter == IF filter_expression # {} THEN Some(filter_expression) ELSE None
        asked == Call("query_vectors", [topK |-> top_k, filter |-> final_filter])
        failed == emb.value = None \/ env.index.kind = "raise"
    IN  [raised |-> failed, exc |-> "query_vectors failed",
         value |-> IF failed THEN None ELSE Some(env.index),
         calls |-> emb.calls \o <<asked>>]

\* query_vectors raises when it is handed no vector or when the index fails;
\* the except branch turns both into the return value None.
query_s3_vector_store(query_text, client_account_filter, document_type_filter, top_k, env) ==
    LET emb == get_text_embedding(query_text, env)
        filter_expression == FilterExpression(client_account_filter, document_type_filter)
        final_filter == IF filter_expression # {} THEN Some(filter_expression) ELSE None
        asked == Call("query_vectors", [topK |-> top_k, filter |-> final_filter])
        failed == emb.value = None \/ env.index.kind = "raise"
    IN  [raised |-> FALSE, exc |-> "",
         value |-> IF failed THEN None ELSE Some(env.index),
         calls |-> emb.calls \o <<asked>>]

Marker(i) == "[" \o ToString(i) \o "]"

\* The prompt builder numbering the chunks from 0: ref = f"[{i}]".
build_prompt_zero_based(query, vectors) ==
    [context |-> [i \in 1..Len(vectors) |->
                    [ref |-> Marker(i - 1),
                     source |-> vectors[i].metadata.s3_path,
                     text |-> vectors[i].metadata.text]],
     question |-> query,
     source_refs |-> [m \in {Marker(i - 1) : i \in 1..Len(vectors)} |->
                        (CHOOSE c \in {vectors[i] : i \in {j \in 1..Len(vectors) : Marker(j - 1) = m}} : TRUE).metadata]]

\* legal_rag.py:123-153: context holds, per chunk, what the prompt text shows
\* of it ("[i] (source):" and the chunk text); source_refs[ref] = metadata.
build_prompt(query, vectors) ==
    [context |-> [i \in 1..Len(vectors) |->
                    [ref |-> Marker(i),
                     source |-> vectors[i].metadata.s3_path,
                     text |-> vectors[i].metadata.text]],
     question |-> query,
     source_refs |-> [m \in {Marker(i) : i \in 1..Len(vectors)} |->
                        (CHOOSE c \in {vectors[i] : i \in {j \in 1..Len(vectors) : Marker(j) = m}} : TRUE).metadata]]

NoAnswerTuple == <<None, EmptyDict, 0, <<>>>>

\* response.choices[0].message.content.strip()
Strip(text) == IF text = " ans [1] " THEN "ans [1]" ELSE IF text = " " THEN "" ELSE text

\* The synthesis asking the model a second time after a failed completion.
synthesize_retrying(query, retrieved, vectors, env) ==
    LET built == build_prompt(query, vectors)
        asked == retrieved.calls \o <<Call("llm", built)>>
    IN  IF env.llm.kind = "raise"
        THEN Raise(env.llm.text) @@ [calls |-> asked \o <<Call("llm", built)>>]
        ELSE Ok(<<Some(Strip(env.llm.text)), built.source_refs, env.elapsed, vectors>>)
                @@ [calls |-> asked]

\* legal_rag.py:176-196: prompt, the one completion request, the tuple
synthesize(query, retrieved, vectors, env) ==
    LET built == build_prompt(query, vectors)
        asked == retrieved.calls \o <<Call("llm", built)>>
    IN  IF env.llm.kind = "raise"
        THEN Raise(env.llm.text) @@ [calls |-> asked]
        ELSE Ok(<<Some(Strip(env.llm.text)), built.source_refs, env.elapsed, vectors>>)
                @@ [calls |-> asked]

VectorsOf(retrieved) ==
    IF retrieved.value = None \/ retrieved.value[1].kind # "response"
    THEN <<>> ELSE retrieved.value[1].vectors

\* The pipeline with the two early returns removed.
run_query_pipeline_no_short_circuit(query, client_filter, document_type_filter, top_k, env) ==
    LET chunks == query_s3_vector_store(query, client_filter, document_type_filter, top_k, env)
    IN  synthesize(query, chunks, VectorsOf(chunks), env)

run_query_pipeline(query, client_filter, document_type_filter, top_k, env) ==
    LET chunks == query_s3_vector_store(query, client_filter, document_type_filter, top_k, env)
    IN  IF chunks.raised
        THEN Raise(chunks.exc) @@ [calls |-> chunks.calls]
        ELSE IF chunks.value = None
        THEN Ok(NoAnswerTuple) @@ [calls |-> chunks.calls]
        ELSE IF VectorsOf(chunks) = <<>>
        THEN Ok(NoAnswerTuple) @@ [calls |-> chunks.calls]
        ELSE synthesize(query, chunks, VectorsOf(chunks), env)

\* Parameters the pipeline's signature accepts (legal_rag.py:155-156).
PipelineParams == {"query", "client_filter", "document_type_filter", "top_k"}

BucketKey(s3_path) == IF s3_path = "s3://b/k.pdf" THEN Some(<<"b", "k.pdf">>) ELSE None

\* s3ok: whether the storage client can sign (credentials, endpoint).
generate_presigned_url(s3_path, s3ok) ==
    IF BucketKey(s3_path) = None THEN None
    ELSE IF s3ok THEN Some("https://signed/" \o BucketKey(s3_path)[1][2])
    ELSE None

\* ------------------------------------------------ backend/models.py
DocumentSnippetFields ==
    {"id", "title", "content", "source", "relevance_score", "page_number", "section", "metadata"}

\* A dataclass constructor rejects a keyword that is not one of its fields.
DocumentSnippet(kwargs) ==
    IF DOMAIN kwargs \subseteq DocumentSnippetFields
    THEN Ok(kwargs)
    ELSE Raise("DocumentSnippet.__init__() got an unexpected keyword argument '"
               \o (CHOOSE k \in DOMAIN kwargs : k \notin DocumentSnippetFields) \o "'")

SearchResult(query, summary, snippets, client_filter, total_documents, processing_time) ==
    [query |-> query, summary |-> summary, snippets |-> snippets,
     client_filter |-> client_filter, total_documents |-> total_documents,
     processing_time |-> processing_time]

\* ---------------------------------------------- backend/rag_client.py
md5(cache_string) == "md5(" \o cache_string \o ")"

_get_cache_key(query, client_filter, document_type_filter, account_type_filter, solution_line_filter, related_product_filter, top_k) ==
    md5(query \o "|" \o client_filter \o "|" \o document_type_filter \o "|"
        \o account_type_filter \o "|" \o solution_line_filter \o "|"
        \o related_product_filter \o "|" \o ToString(top_k))

CachePath(cache_key) == "cache/" \o cache_key \o ".pkl"

\* A file holds a pickled object or bytes pickle.load cannot read.
Pickled(obj) == [readable |-> TRUE, obj |-> obj]
Unreadable == [readable |-> FALSE, obj |-> None]

_get_from_cache(dir, cache_key) ==
    IF CachePath(cache_key) \in DOMAIN dir /\ dir[CachePath(cache_key)].readable
    THEN dir[CachePath(cache_key)].obj
    ELSE None

\* open(..., 'wb') may fail (the file is untouched) and pickle.dump may fail
\* after open has truncated the file; both are swallowed.
WriteOutcomes == {"ok", "open_error", "dump_error"}

WriteFile(dir, path, content) ==
    [f \in DOMAIN dir \cup {path} |-> IF f = path THEN content ELSE dir[f]]

_save_to_cache(dir, cache_key, result, wenv) ==
    IF wenv = "ok" THEN WriteFile(dir, CachePath(cache_key), Pickled(result))
    ELSE IF wenv = "dump_error" THEN WriteFile(dir, CachePath(cache_key), Unreadable)
    ELSE dir

\* Keywords _cached_search passes to run_query_pipeline (rag_client.py:58-66, 78-86).
CachedSearchKwargs ==
    {"query", "client_filter", "document_type_filter", "account_type_filter",
     "solution_line_filter", "related_product_filter", "top_k"}

UnexpectedKeyword(kwargs) ==
    "LegalRAGBackend.run_query_pipeline() got an unexpected keyword argument '"
    \o (CHOOSE k \in kwargs : k \notin PipelineParams) \o "'"

\* x if x != "None" else None
NoneIfNoneString(x) == IF x # "None" THEN Some(x) ELSE None

\* The call self.rag_backend.run_query_pipeline(query=..., ..., top_k=top_k):
\* the arguments are bound to the signature before the body runs.
CallPipeline(kwargs, query, client_filter, document_type_filter, top_k, env) ==
    LET invoked == <<Call("run_query_pipeline", NoneIfNoneString(client_filter))>>
        ran == run_query_pipeline(query, NoneIfNoneString(client_filter),
                                  NoneIfNoneString(document_type_filter), top_k, env)
    IN  IF kwargs \subseteq PipelineParams
        THEN [ran EXCEPT !.calls = invoked \o @]
        ELSE Raise(UnexpectedKeyword(kwargs)) @@ [calls |-> invoked]

\* The cached search catching the pipeline's exception and storing an error
\* tuple made from it under the key, like any other result.
_cached_search_saving_raised(caching, dir, query, client_filter, document_type_filter, account_type_filter, solution_line_filter, related_product_filter, top_k, env, wenv) ==
    LET cache_key == _get_cache_key(query, client_filter, document_type_filter,
                                    account_type_filter, solution_line_filter,
                                    related_product_filter, top_k)
        cached_result == _get_from_cache(dir, cache_key)
        entered == <<Call("_cached_search", client_filter)>>
        looked == entered \o <<Call("_get_from_cache", cache_key)>>
        called == CallPipeline(CachedSearchKwargs, query, client_filter,
                               document_type_filter, top_k, env)
        result == IF called.raised
                  THEN Ok(<<Some("Error: " \o called.exc), EmptyDict, 0, <<>>>>)
                          @@ [calls |-> called.calls]
                  ELSE called
    IN  IF ~caching
        THEN [called EXCEPT !.calls = entered \o @] @@ [dir |-> dir, hit |-> FALSE]
        ELSE IF cached_result # None
        THEN Ok(cached_result) @@ [calls |-> looked, dir |-> dir, hit |-> TRUE]
        ELSE [result EXCEPT !.calls = looked \o @ \o <<Call("_save_to_cache", cache_key)>>]
                @@ [dir |-> _save_to_cache(dir, cache_key, result.value, wenv), hit |-> FALSE]

\* rag_client.py:53-90
_cached_search(caching, dir, query, client_filter, document_type_filter, account_type_filter, solution_line_filter, related_product_filter, top_k, env, wenv) ==
    LET cache_key == _get_cache_key(query, client_filter, document_type_filter,
                                    account_type_filter, solution_line_filter,
                                    related_product_filter, top_k)
        cached_result == _get_from_cache(dir, cache_key)
        entered == <<Call("_cached_search", client_filter)>>
        looked == entered \o <<Call("_get_from_cache", cache_key)>>
        result == CallPipeline(CachedSearchKwargs, query, client_filter,
                               document_type_filter, top_k, env)
    IN  IF ~caching
        THEN [result EXCEPT !.calls = entered \o @] @@ [dir |-> dir, hit |-> FALSE]
        ELSE IF cached_result # None
        THEN Ok(cached_result) @@ [calls |-> looked, dir |-> dir, hit |-> TRUE]
        ELSE IF result.raised
        THEN [result EXCEPT !.calls = looked \o @] @@ [dir |-> dir, hit |-> FALSE]
        ELSE [result EXCEPT !.calls = looked \o @ \o <<Call("_save_to_cache", cache_key)>>]
                @@ [dir |-> _save_to_cache(dir, cache_key, result.value, wenv), hit |-> FALSE]

\* answer, refs, latency, chunks = <tuple>
Unpack(obj) ==
    IF Len(obj) = 4 THEN Ok(obj)
    ELSE IF Len(obj) < 4
    THEN Raise("not enough values to unpack (expected 4, got " \o ToString(Len(obj)) \o ")")
    ELSE Raise("too many values to unpack (expected 4)")

\* x or "None"
OrNoneString(x) == IF Truthy(x) THEN x[1] ELSE "None"

\* s3_path.split('/')[-1] if '/' in s3_path else s3_path
BaseName(s3_path) == IF s3_path = "s3://b/k.pdf" THEN "k.pdf" ELSE s3_path

\* Keywords both loops pass to DocumentSnippet (rag_client.py:191-200, 294-303).
SnippetKwargs(id, chunk, presigned_url) ==
    [id |-> id,
     title |-> IF chunk.metadata.s3_path # "" THEN BaseName(chunk.metadata.s3_path)
               ELSE "Unknown Document",
     content |-> chunk.metadata.text,
     source |-> "Unknown",
     relevance_score |-> 100 - chunk.distance,
     distance |-> chunk.distance,
     section |-> "Unknown",
     metadata |-> IF presigned_url # None
                  THEN chunk.metadata @@ [presigned_url |-> presigned_url[1]]
                  ELSE chunk.metadata]

\* for i, chunk in enumerate(chunks): ... snippets.append(snippet)
\* i counts from 1 here; filtering is TRUE in search_documents only.
RECURSIVE SnippetLoop(_, _, _, _, _, _, _, _)
SnippetLoop(chunks, i, prefix, filtering, min_relevance, s3ok, snippets, calls) ==
    IF i > Len(chunks) THEN Ok(snippets) @@ [calls |-> calls]
    ELSE LET chunk == chunks[i]
             s3_path == chunk.metadata.s3_path
             relevance_score == 100 - chunk.distance
             presigned_url == IF s3_path # "" THEN generate_presigned_url(s3_path, s3ok)
                              ELSE None
             minted == IF s3_path # "" THEN <<Call("generate_presigned_url", s3_path)>>
                       ELSE <<>>
             snippet == DocumentSnippet(
                            SnippetKwargs(prefix \o ToString(i - 1), chunk, presigned_url))
         IN  IF filtering /\ relevance_score < min_relevance
             THEN SnippetLoop(chunks, i + 1, prefix, filtering, min_relevance, s3ok,
                              snippets, calls)
             ELSE IF snippet.raised
             THEN snippet @@ [calls |-> calls \o minted]
             ELSE SnippetLoop(chunks, i + 1, prefix, filtering, min_relevance, s3ok,
                              Append(snippets, snippet.value), calls \o minted)

\* try: log_error(...) except Exception: pass   (logok: whether log_error works)
log_error_unguarded(logok) == IF logok THEN Ok(None) ELSE Raise("log_error failed")

log_error_guarded(logok) == Ok(None)

Summary(answer) == IF Truthy(answer) THEN answer[1] ELSE "No answer generated"

\* rag_client.py:203-237: the return of the try block, or the except branch.
\* found is what _cached_search gave, unpacked the tuple assignment, shaped
\* the snippet loop.
SearchReturn(req, world, found, unpacked, shaped) ==
    LET logged == log_error_guarded(world.logok)
        base == [dir |-> found.dir, hit |-> found.hit,
                 calls |-> found.calls \o shaped.calls,
                 tuple |-> IF unpacked.raised THEN None ELSE Some(unpacked.value)]
    IN  IF ~shaped.raised
        THEN base @@ [raised |-> FALSE, exc |-> None,
                      value |-> SearchResult(req.query, Summary(unpacked.value[1]),
                                             shaped.value, req.client_filter,
                                             Len(shaped.value), unpacked.value[3])]
        ELSE IF logged.raised
        THEN base @@ [raised |-> TRUE, exc |-> Some(logged.exc), value |-> None]
        ELSE base @@ [raised |-> FALSE, exc |-> Some(shaped.exc),
                      value |-> SearchResult(req.query, "Error: " \o shaped.exc, <<>>,
                                             req.client_filter, 0, 0)]

\* rag_client.py:155-201: the snippet loop over the unpacked chunks
ShapeUnpacked(req, world, found, unpacked) ==
    SearchReturn(req, world, found, unpacked,
                 IF unpacked.raised THEN Raise(unpacked.exc) @@ [calls |-> <<>>]
                 ELSE SnippetLoop(unpacked.value[4], 1, "chunk_", TRUE, req.min_relevance,
                                  world.s3ok, <<>>, <<>>))

\* rag_client.py:152-153: answer, refs, latency, chunks = self._cached_search(...)
ShapeFound(req, world, found) ==
    ShapeUnpacked(req, world, found, IF found.raised THEN found ELSE Unpack(found.value))

\* req: the arguments; world: what the services and the disk do during the call.
search_documents(caching, dir, req, world) ==
    ShapeFound(req, world,
               _cached_search(caching, dir, req.query,
                              OrNoneString(req.client_filter),
                              OrNoneString(req.document_type_filter),
                              OrNoneString(req.account_type_filter),
                              OrNoneString(req.solution_line_filter),
                              OrNoneString(req.related_product_filter),
                              req.top_k, world.env, world.wenv))

\* The dict assignment d[key] = value; order keeps the keys by first insertion.
Put(d, key, value) == [k \in DOMAIN d \cup {key} |-> IF k = key THEN value ELSE d[k]]

Inserted(order, key) ==
    IF \E i \in 1..Len(order) : order[i] = key THEN order ELSE Append(order, key)

\* rag_client.py:306-313: the account's answer and SearchResult
TryReturn(mreq, client, found, unpacked, shaped) ==
    [raised |-> shaped.raised,
     exc |-> shaped.exc,
     dir |-> found.dir,
     calls |-> found.calls \o shaped.calls,
     tuple |-> IF unpacked.raised THEN None ELSE Some(unpacked.value),
     answer |-> IF unpacked.raised THEN ""
                ELSE IF Truthy(unpacked.value[1]) THEN unpacked.value[1][1]
                ELSE "No answer found",
     value |-> IF shaped.raised THEN None
               ELSE SearchResult(mreq.query, Summary(unpacked.value[1]), shaped.value,
                                 Some(client), Len(shaped.value), unpacked.value[3])]

\* rag_client.py:263-304: the snippet loop, without a relevance test
TryUnpacked(mreq, client, s3ok, found, unpacked) ==
    TryReturn(mreq, client, found, unpacked,
              IF unpacked.raised THEN Raise(unpacked.exc) @@ [calls |-> <<>>]
              ELSE SnippetLoop(unpacked.value[4], 1, client \o "_chunk_", FALSE, 0, s3ok,
                               <<>>, <<>>))

\* rag_client.py:256-258: answer, refs, latency, chunks = self._cached_search(...)
TryFound(mreq, client, s3ok, found) ==
    TryUnpacked(mreq, client, s3ok, found,
                IF found.raised THEN found ELSE Unpack(found.value))

\* rag_client.py:252-313, the body of the try block for one account
TryClient(caching, dir, mreq, client, env, wenv, s3ok) ==
    TryFound(mreq, client, s3ok,
             _cached_search(caching, dir, mreq.query, client,
                            OrNoneString(mreq.document_type_filter),
                            OrNoneString(mreq.account_type_filter),
                            OrNoneString(mreq.solution_line_filter),
                            OrNoneString(mreq.related_product_filter),
                            mreq.top_k, env, wenv))

ErrorResult(query, client, exc) ==
    SearchResult(query, "Error: " \o exc, <<>>, Some(client), 0, 0)

\* What the loop keeps for one account, t being how its try block ended:
\* lines 261 and 306-313 after a normal end, 316-324 after a raise.
Record(mreq, client, acc, t) ==
    [acc EXCEPT !.dir = t.dir, !.calls = @ \o t.calls,
                !.order = Inserted(@, client),
                !.tries = Put(@, client, [raised |-> t.raised, exc |-> t.exc,
                                          tuple |-> t.tuple]),
                !.client_results =
                    Put(@, client, IF t.raised THEN "Error: " \o t.exc ELSE t.answer),
                !.client_search_results =
                    Put(@, client, IF t.raised THEN ErrorResult(mreq.query, client, t.exc)
                                   ELSE t.value)]

\* rag_client.py:252-324: the try block and its except branch for one account
RecordClient(caching, mreq, client, env, wenv, s3ok, acc) ==
    Record(mreq, client, acc, TryClient(caching, acc.dir, mreq, client, env, wenv, s3ok))

RecordUncaught(mreq, client, acc, t) ==
    IF t.raised
    THEN [acc EXCEPT !.dir = t.dir, !.calls = @ \o t.calls, !.aborted = TRUE]
    ELSE Record(mreq, client, acc, t)

\* The loop body without its except branch: the exception leaves the loop
\* and nothing is recorded for the account.
ClientStepUncaught(caching, mreq, client, env, wenv, s3ok, acc) ==
    IF client = "All" THEN acc
    ELSE RecordUncaught(mreq, client, acc,
                        TryClient(caching, acc.dir, mreq, client, env, wenv, s3ok))

RecordUnlessFailed(mreq, client, acc, t) ==
    IF t.raised
    THEN [acc EXCEPT !.dir = t.dir, !.calls = @ \o t.calls,
                     !.tries = Put(@, client, [raised |-> t.raised, exc |-> t.exc,
                                               tuple |-> t.tuple])]
    ELSE Record(mreq, client, acc, t)

\* The loop body where the except branch records nothing and the loop goes on.
ClientStepDropFailed(caching, mreq, client, env, wenv, s3ok, acc) ==
    IF client = "All" THEN acc
    ELSE RecordUnlessFailed(mreq, client, acc,
                            TryClient(caching, acc.dir, mreq, client, env, wenv, s3ok))

\* The loop body without the "All" test.
ClientStepNoSkip(caching, mreq, client, env, wenv, s3ok, acc) ==
    RecordClient(caching, mreq, client, env, wenv, s3ok, acc)

\* rag_client.py:248-324, one pass of "for client in client_filters"
ClientStep(caching, mreq, client, env, wenv, s3ok, acc) ==
    IF client = "All" THEN acc
    ELSE RecordClient(caching, mreq, client, env, wenv, s3ok, acc)

\* The loop going through the list from its last account to its first.
RECURSIVE ClientLoopBackwards(_, _, _, _, _)
ClientLoopBackwards(caching, mreq, mworld, i, acc) ==
    IF i > Len(mreq.client_filters) \/ acc.aborted THEN acc
    ELSE ClientLoopBackwards(caching, mreq, mworld, i + 1,
             ClientStep(caching, mreq,
                        mreq.client_filters[Len(mreq.client_filters) + 1 - i],
                        mworld.envs[Len(mreq.client_filters) + 1 - i],
                        mworld.wenv, mworld.s3ok, acc))

\* acc.tries keeps, per account, how its try block ended.
RECURSIVE ClientLoop(_, _, _, _, _)
ClientLoop(caching, mreq, mworld, i, acc) ==
    IF i > Len(mreq.client_filters) \/ acc.aborted THEN acc
    ELSE ClientLoop(caching, mreq, mworld, i + 1,
                    ClientStep(caching, mreq, mreq.client_filters[i], mworld.envs[i],
                               mworld.wenv, mworld.s3ok, acc))

\* The entries of the reduction prompt: one "Client: ... Answer: ..." block per
\* key of client_results, in insertion order (rag_client.py:340-342).
ReductionContext(client_results, order) ==
    [i \in 1..Len(order) |-> [client |-> order[i], answer |-> client_results[order[i]]]]

\* The reduction without its try/except: the completion's exception leaves it.
_generate_tabular_summary_uncaught(query, client_results, order, llm) ==
    [raised |-> llm.kind = "raise",
     calls |-> <<Call("reduce", [question |-> query,
                                 context |-> ReductionContext(client_results, order)])>>,
     value |-> IF llm.kind = "raise" THEN llm.text ELSE Strip(llm.text)]

_generate_tabular_summary(query, client_results, order, llm) ==
    [raised |-> FALSE,
     calls |-> <<Call("reduce", [question |-> query,
                                 context |-> ReductionContext(client_results, order)])>>,
     value |-> IF llm.kind = "raise" THEN "Error generating summary: " \o llm.text
               ELSE Strip(llm.text)]

MultiClientResult(query, client_results, total_processing_time, tabular_summary, client_search_results) ==
    [query |-> query, client_results |-> client_results,
     total_processing_time |-> total_processing_time,
     tabular_summary |-> tabular_summary,
     client_search_results |-> client_search_results]

\* rag_client.py:329-337: the value handed back
\* collected: the two dicts as the loop left them, before line 326.
MultiReturn(mreq, mworld, done, tabular_summary) ==
    IF done.aborted
    THEN [raised |-> TRUE, dir |-> done.dir, calls |-> done.calls,
          tries |-> done.tries, order |-> done.order, value |-> None,
          collected |-> [client_results |-> done.client_results,
                         client_search_results |-> done.client_search_results]]
    ELSE IF tabular_summary.raised
    THEN [raised |-> TRUE, dir |-> done.dir,
          calls |-> done.calls \o tabular_summary.calls,
          tries |-> done.tries, order |-> done.order, value |-> None,
          collected |-> [client_results |-> done.client_results,
                         client_search_results |-> done.client_search_results]]
    ELSE [raised |-> FALSE, dir |-> done.dir,
          calls |-> done.calls \o tabular_summary.calls,
          tries |-> done.tries, order |-> done.order,
          collected |-> [client_results |-> done.client_results,
                         client_search_results |-> done.client_search_results],
          value |-> MultiClientResult(mreq.query, done.client_results, mworld.elapsed,
                                      tabular_summary.value, done.client_search_results)]

\* rag_client.py:326: the reduction over what the loop collected
Reduce(mreq, mworld, done) ==
    MultiReturn(mreq, mworld, done,
                _generate_tabular_summary(mreq.query, done.client_results, done.order,
                                          mworld.reduce))

search_multiple_clients(caching, dir, mreq, mworld) ==
    Reduce(mreq, mworld,
           ClientLoop(caching, mreq, mworld, 1,
                      [dir |-> dir, calls |-> <<>>, order |-> <<>>, tries |-> EmptyDict,
                       aborted |-> FALSE, client_results |-> EmptyDict,
                       client_search_results |-> EmptyDict]))

\* ------------------------------------------------------------ inputs
\* (query, client, document type, account type, solution line, related
\* product, top_k): the seven components of the cache key.
Params(req) ==
    <<req.query, req.client_filter, req.document_type_filter, req.account_type_filter,
      req.solution_line_filter, req.related_product_filter, req.top_k>>

Request(query, client, doc, acct, sol, rel, top_k, min_relevance) ==
    [query |-> query, client_filter |-> client, document_type_filter |-> doc,
     account_type_filter |-> acct, solution_line_filter |-> sol,
     related_product_filter |-> rel, top_k |-> top_k, min_relevance |-> min_relevance]

MinRelevances == {0, 50, 100}

Requests ==
    {Request("q", c, d, None, None, None, k, m) :
        c \in {None, Some("A"), Some("None")}, d \in {None, Some("D")},
        k \in 1..MaxChunks, m \in MinRelevances}
    \cup {Request("q", c, None, Some("T"), Some("S"), Some("P"), 1, 0) :
              c \in {None, Some("A")}}

MultiRequests ==
    {[query |-> "q", client_filters |-> L, document_type_filter |-> d,
      account_type_filter |-> None, solution_line_filter |-> None,
      related_product_filter |-> None, top_k |-> k] :
        L \in SeqsUpTo({"All", "A", "B"}, MaxClients), d \in {None, Some("D")},
        k \in 1..MaxChunks}

KeyOf(req) ==
    _get_cache_key(req.query, OrNoneString(req.client_filter),
                   OrNoneString(req.document_type_filter),
                   OrNoneString(req.account_type_filter),
                   OrNoneString(req.solution_line_filter),
                   OrNoneString(req.related_product_filter), req.top_k)

\* Whether a call of _cached_search reaches the services and the disk write.
BodyRuns == CachedSearchKwargs \subseteq PipelineParams

\* Every service answering well.
HealthyEnv == [embed |-> "ok", index |-> [kind |-> "response", vectors |-> <<ChunkNear>>],
               llm |-> [kind |-> "ok", text |-> " ans [1] "], elapsed |-> 1200]

Healthy(env) == env.embed = "ok" /\ env.index.kind = "response" /\ env.llm.kind = "ok"

\* While the call never reaches the services, what they would answer cannot
\* show: one healthy world then stands for all of them.
ServiceEnvs(top_k) == IF BodyRuns THEN PipelineEnvs(top_k) ELSE {HealthyEnv}

\* The three ways retrieval ends without a chunk: the embedding request
\* fails, the index query fails, the index has no neighbour.
EmbedDownEnv == [IdleEnv EXCEPT !.elapsed = 1200]
IndexDownEnv == [IdleEnv EXCEPT !.embed = "ok", !.elapsed = 1200]
NoNeighboursEnv ==
    [IdleEnv EXCEPT !.embed = "ok", !.index = [kind |-> "response", vectors |-> <<>>],
                    !.elapsed = 1200]

\* The worlds a single-scope search is run in.
SearchEnvs(top_k) ==
    IF BodyRuns THEN PipelineEnvs(top_k)
    ELSE {HealthyEnv, EmbedDownEnv, IndexDownEnv, NoNeighboursEnv}

\* ------------------------------------------------------ initial state
\* The cache directory outlives the process (os.makedirs(..., exist_ok=True)):
\* it starts empty or with files left by earlier runs.
FullTuple ==
    run_query_pipeline("q", Some("A"), None, MaxChunks,
        [embed |-> "ok", index |-> [kind |-> "response", vectors |-> <<ChunkNear, ChunkFar>>],
         llm |-> [kind |-> "ok", text |-> " ans [1] "], elapsed |-> 1200]).value

PathA == CachePath(KeyOf(Request("q", Some("A"), None, None, None, None, MaxChunks, 0)))
PathB == CachePath(KeyOf(Request("q", Some("B"), None, None, None, None, MaxChunks, 0)))
PathNone == CachePath(KeyOf(Request("q", None, None, None, None, None, MaxChunks, 0)))

EmptyDir == [f \in {} |-> Unreadable]

SeedDirs ==
    {EmptyDir,
     WriteFile(WriteFile(EmptyDir, PathA, Pickled(FullTuple)), PathB, Pickled(NoAnswerTuple)),
     WriteFile(EmptyDir, PathA, Unreadable),
     WriteFile(EmptyDir, PathA, Pickled(<<"x">>)),
     WriteFile(EmptyDir, PathNone, Pickled(NoAnswerTuple))}

NoOp == [kind |-> "idle"]

\* Every browser session runs the script in a thread of its own, with its own
\* RAGClient (app.py:9-11); all of them use the directory "cache".
Threads == 1..MaxThreads

\* called: the thread has made the pipeline call of a miss.
IdleThread == [pc |-> "idle", fn |-> "", req |-> None, key |-> "", result |-> None,
               offset |-> 0, called |-> FALSE, ret |-> Ok(None)]

\* A browser session that has not run the script yet: no key is set, nothing
\* is drawn.
NewSession == [k \in {} |-> None]

NothingShown == [event |-> "none", body |-> "none",
                 section |-> "none", results |-> None, rerun |-> FALSE]

Init ==
    /\ use_cache = TRUE
    /\ cache_dir \in SeedDirs
    /\ op = NoOp
    /\ last_search = None
    /\ dir_at_disable = None
    /\ threads = [t \in Threads |-> IdleThread]
    /\ session_state = NewSession
    /\ screen = NothingShown
    /\ latest_search = None

\* ----------------------------------------------------------- actions
SearchDocuments ==
    /\ op = NoOp
    /\ \E req \in Requests, wenv \in WriteOutcomes, s3ok \in BOOLEAN, logok \in BOOLEAN :
       \E env \in SearchEnvs(req.top_k) :
         LET world == [env |-> env, wenv |-> wenv, s3ok |-> s3ok, logok |-> logok]
             out == search_documents(use_cache, cache_dir, req, world)
         IN  /\ op' = [kind |-> "search_documents", req |-> req, caching |-> use_cache,
                       world |-> world, before |-> cache_dir, out |-> out]
             /\ cache_dir' = out.dir
             /\ last_search' = IF use_cache /\ Healthy(env) /\ wenv = "ok"
                               THEN Some(Params(req)) ELSE last_search
    /\ UNCHANGED <<use_cache, dir_at_disable, threads, session_state, screen, latest_search>>

SearchMultipleClients ==
    /\ op = NoOp
    /\ \E mreq \in MultiRequests, s3ok \in BOOLEAN, reduce \in LLMOutcomes,
          wenv \in (IF BodyRuns THEN WriteOutcomes ELSE {"ok"}) :
       \E envs \in [1..Len(mreq.client_filters) -> ServiceEnvs(mreq.top_k)] :
         LET mworld == [envs |-> envs, wenv |-> wenv, s3ok |-> s3ok, reduce |-> reduce,
                        elapsed |-> 1200]
             out == search_multiple_clients(use_cache, cache_dir, mreq, mworld)
         IN  /\ op' = [kind |-> "search_multiple_clients", req |-> mreq,
                       caching |-> use_cache, reduce |-> reduce, out |-> out]
             /\ cache_dir' = out.dir
    /\ UNCHANGED <<use_cache, last_search, dir_at_disable, threads, session_state, screen, latest_search>>

\* A direct call of the pipeline, as src/test_rag.py:82 makes it.
RunQueryPipeline ==
    /\ op = NoOp
    /\ \E query \in {"q"}, client \in {None, Some("A"), Some("All")},
          doc \in {None, Some("D")}, top_k \in 1..MaxChunks :
       \E env \in PipelineEnvs(top_k) :
         op' = [kind |-> "run_query_pipeline",
                req |-> [query |-> query, client_filter |-> client,
                         document_type_filter |-> doc, top_k |-> top_k],
                env |-> env,
                out |-> run_query_pipeline(query, client, doc, top_k, env)]
    /\ UNCHANGED <<use_cache, cache_dir, last_search, dir_at_disable, threads, session_state, screen, latest_search>>

\* A toggle that empties the cache directory when it switches caching off.
ToggleCacheClearing ==
    /\ op = NoOp
    /\ use_cache' = ~use_cache
    /\ cache_dir' = IF use_cache THEN EmptyDir ELSE cache_dir
    /\ dir_at_disable' = IF use_cache THEN Some(cache_dir) ELSE dir_at_disable
    /\ UNCHANGED <<op, last_search, threads, session_state, screen, latest_search>>

\* A direct call of get_text_embedding with a list of texts.
GetTextEmbedding ==
    /\ op = NoOp
    /\ \E texts \in SeqsUpTo({"a", "b"}, MaxTexts) :
       \E responses \in [1..Len(texts) -> EmbedResponses] :
         op' = [kind |-> "get_text_embedding", texts |-> texts, responses |-> responses,
                out |-> EmbedTexts(texts, responses)]
    /\ UNCHANGED <<use_cache, cache_dir, last_search, dir_at_disable, threads, session_state, screen, latest_search>>

\* views/cache_management.py:188-192
ToggleCache ==
    /\ op = NoOp
    /\ use_cache' = ~use_cache
    /\ dir_at_disable' = IF use_cache THEN Some(cache_dir) ELSE dir_at_disable
    /\ UNCHANGED <<cache_dir, op, last_search, threads, session_state, screen, latest_search>>

\* The caller has taken the returned value; the client is idle again.
Return ==
    /\ op # NoOp
    /\ op' = NoOp
    /\ UNCHANGED <<use_cache, cache_dir, last_search, dir_at_disable, threads, session_state, screen, latest_search>>

Next ==
    \/ SearchDocuments
    \/ SearchMultipleClients
    \/ RunQueryPipeline
    \/ GetTextEmbedding
    \/ ToggleCache
    \/ Return

Spec == Init /\ [][Next]_vars

\* ------------------------------------------- threads sharing the cache
\* The cache code statement by statement, run by several script threads at
\* once.  Nothing in rag_client.py locks the directory or a file.

\* The request the threads search for (they contend for one key), and the
\* tuples they have computed when they enter the write of line 89.  The two tuples differ in the answer
\* (same number of characters) and in the latency, so their serialisations
\* have the same length and the same layout.
ThreadRequests == {Request("q", Some("A"), None, None, None, None, MaxChunks, 0)}

RivalTuple == <<Some("ans [2]"), FullTuple[2], 1300, FullTuple[4]>>

ThreadTuples == {FullTuple, RivalTuple}

\* pickle.dump writes the tuple front to back: answer, refs, latency, chunks.
PickleLen == 4

\* open(cache_path, 'wb') leaves the file empty.
Truncated == [readable |-> FALSE, obj |-> <<>>, holes |-> {}]

\* A write of pieces at the writer's own file offset.  Positions between the
\* end of the file and the offset become a hole (zero bytes); the file can be
\* unpickled when every position up to the end marker holds written data.
WriteAt(file, offset, pieces) ==
    LET end == IF Len(file.obj) > offset + Len(pieces) THEN Len(file.obj)
               ELSE offset + Len(pieces)
        written == (offset + 1)..(offset + Len(pieces))
        holes == (file.holes \cup ((Len(file.obj) + 1)..offset)) \ written
    IN  [readable |-> end = PickleLen /\ holes = {},
         obj |-> [i \in 1..end |-> IF i \in written THEN pieces[i - offset]
                                   ELSE IF i <= Len(file.obj) THEN file.obj[i]
                                   ELSE NoAnswerTuple[i]],
         holes |-> holes]

\* A thread enters _cached_search with caching on (rag_client.py:68-70).
BeginCachedSearch(t) ==
    /\ threads[t].pc = "idle"
    /\ \E req \in ThreadRequests :
          threads' = [threads EXCEPT ![t] =
                         [IdleThread EXCEPT !.pc = "lookup", !.fn = "_cached_search",
                                            !.req = Some(req), !.key = KeyOf(req)]]
    /\ UNCHANGED <<use_cache, cache_dir, op, last_search, dir_at_disable, session_state, screen, latest_search>>

\* A thread enters _save_to_cache with a computed tuple (rag_client.py:44-46).
BeginSave(t) ==
    /\ threads[t].pc = "idle"
    /\ \E req \in ThreadRequests, result \in ThreadTuples :
          threads' = [threads EXCEPT ![t] =
                         [IdleThread EXCEPT !.pc = "open", !.fn = "_save_to_cache",
                                            !.key = KeyOf(req), !.result = result]]
    /\ UNCHANGED <<use_cache, cache_dir, op, last_search, dir_at_disable, session_state, screen, latest_search>>

\* A thread enters _get_from_cache (rag_client.py:33-35).
BeginLookup(t) ==
    /\ threads[t].pc = "idle"
    /\ \E req \in ThreadRequests :
          threads' = [threads EXCEPT ![t] =
                         [IdleThread EXCEPT !.pc = "lookup", !.fn = "_get_from_cache",
                                            !.key = KeyOf(req)]]
    /\ UNCHANGED <<use_cache, cache_dir, op, last_search, dir_at_disable, session_state, screen, latest_search>>

\* rag_client.py:36-42 and, in _cached_search, 73-75: the file is read as it
\* is on disk at this moment.
Lookup(t) ==
    /\ threads[t].pc = "lookup"
    /\ LET cached_result == _get_from_cache(cache_dir, threads[t].key)
       IN  threads' = [threads EXCEPT ![t] =
                          IF threads[t].fn = "_get_from_cache" \/ cached_result # None
                          THEN [@ EXCEPT !.pc = "done", !.ret = Ok(cached_result)]
                          ELSE [@ EXCEPT !.pc = "pipeline"]]
    /\ UNCHANGED <<use_cache, cache_dir, op, last_search, dir_at_disable, session_state, screen, latest_search>>

\* rag_client.py:78-86: the pipeline call of a miss
CallBackend(t) ==
    /\ threads[t].pc = "pipeline"
    /\ \E env \in ServiceEnvs(threads[t].req[1].top_k) :
          LET result == CallPipeline(CachedSearchKwargs, threads[t].req[1].query,
                                     OrNoneString(threads[t].req[1].client_filter),
                                     OrNoneString(threads[t].req[1].document_type_filter),
                                     threads[t].req[1].top_k, env)
          IN  threads' = [threads EXCEPT ![t] =
                             IF result.raised
                             THEN [@ EXCEPT !.pc = "done", !.called = TRUE,
                                            !.ret = Raise(result.exc)]
                             ELSE [@ EXCEPT !.pc = "open", !.called = TRUE,
                                            !.result = result.value]]
    /\ UNCHANGED <<use_cache, cache_dir, op, last_search, dir_at_disable, session_state, screen, latest_search>>

\* What the function the thread is in returns once the write is over or given
\* up: None from _save_to_cache, the computed tuple from _cached_search (90).
AfterSave(thread) ==
    [thread EXCEPT !.pc = "done",
                   !.ret = IF thread.fn = "_cached_search" THEN Ok(thread.result)
                           ELSE Ok(None)]

\* rag_client.py:48: open(cache_path, 'wb') truncates the file, or raises and
\* the except branch passes.
Open(t) ==
    /\ threads[t].pc = "open"
    /\ \/ /\ cache_dir' = WriteFile(cache_dir, CachePath(threads[t].key), Truncated)
          /\ threads' = [threads EXCEPT ![t] = [@ EXCEPT !.pc = "dump", !.offset = 0]]
       \/ /\ threads' = [threads EXCEPT ![t] = AfterSave(@)]
          /\ UNCHANGED cache_dir
    /\ UNCHANGED <<use_cache, op, last_search, dir_at_disable, session_state, screen, latest_search>>

\* rag_client.py:49: pickle.dump hands the serialisation to the file in one
\* write or in several; the with block closes the file after the last one.
Dump(t) ==
    /\ threads[t].pc = "dump"
    /\ \E n \in 1..(PickleLen - threads[t].offset) :
          LET path == CachePath(threads[t].key)
              pieces == SubSeq(threads[t].result, threads[t].offset + 1,
                               threads[t].offset + n)
          IN  /\ cache_dir' = WriteFile(cache_dir, path,
                                        WriteAt(cache_dir[path], threads[t].offset, pieces))
              /\ threads' = [threads EXCEPT ![t] =
                                 IF threads[t].offset + n = PickleLen
                                 THEN AfterSave(@)
                                 ELSE [@ EXCEPT !.offset = @ + n]]
    /\ UNCHANGED <<use_cache, op, last_search, dir_at_disable, session_state, screen, latest_search>>

\* rag_client.py:50-51: pickle.dump raises part-way; the file stays as it is.
DumpFails(t) ==
    /\ threads[t].pc = "dump"
    /\ threads' = [threads EXCEPT ![t] = AfterSave(@)]
    /\ UNCHANGED <<use_cache, cache_dir, op, last_search, dir_at_disable, session_state, screen, latest_search>>

\* The caller has taken what the function returned.
Resume(t) ==
    /\ threads[t].pc = "done"
    /\ threads' = [threads EXCEPT ![t] = IdleThread]
    /\ UNCHANGED <<use_cache, cache_dir, op, last_search, dir_at_disable, session_state, screen, latest_search>>

ThreadsNext ==
    \E t \in Threads :
        \/ BeginCachedSearch(t)
        \/ BeginSave(t)
        \/ BeginLookup(t)
        \/ Lookup(t)
        \/ CallBackend(t)
        \/ Open(t)
        \/ Dump(t)
        \/ DumpFails(t)
        \/ Resume(t)

ThreadsSpec == Init /\ [][ThreadsNext]_vars

\* ------------------------------------------------------------ claims
CallsTo(calls, fn) == Cardinality({i \in 1..Len(calls) : calls[i].fn = fn})

IsSearch == op.kind = "search_documents"
IsMulti == op.kind = "search_multiple_clients"
IsPipeline == op.kind = "run_query_pipeline"

\* C1: with caching on, once a search with given parameters has run against
\* healthy services and a writable disk, the next search with the same seven
\* parameters is served from the cache: it returns the stored tuple and does
\* not invoke the backend pipeline.
C1_CacheRoundTrip ==
    [][(/\ op = NoOp
        /\ op'.kind = "search_documents"
        /\ op'.caching
        /\ last_search = Some(Params(op'.req)))
       => (/\ op'.out.hit
           /\ CallsTo(op'.out.calls, "run_query_pipeline") = 0
           /\ op'.out.tuple = Some(_get_from_cache(cache_dir, KeyOf(op'.req))))]_vars

\* The requests the key derivation is compared over.
KeyRequests ==
    {Request(q, c, d, a, sl, rp, k, 0) :
        q \in {"q", "q|A"}, c \in {None, Some("None"), Some("A"), Some("B"), Some("A|B")},
        d \in {None, Some("D")}, a \in {None, Some("T")}, sl \in {None, Some("S")},
        rp \in {None, Some("P")}, k \in 1..MaxChunks}

\* C2: the cache key of a search equals the key of another request exactly
\* when all seven components (an unset filter being one of the values) are
\* equal.
C2_CacheKeyInjective ==
    IsSearch =>
        \A r \in KeyRequests :
            (KeyOf(r) = KeyOf(op.req)) <=> (Params(r) = Params(op.req))

RetrievedNothing(env) ==
    env.embed = "fail" \/ env.index.kind # "response" \/ env.index.vectors = <<>>

\* C3: when the retriever yields zero chunks (query failed, no 'vectors', or
\* an empty list) the pipeline returns without a completion request and with
\* an empty chunk list; a search result shaped from a tuple without chunks
\* has total_documents = 0, no snippets, and no completion request either.
C3_EmptyRetrievalShortCircuit ==
    /\ (IsPipeline /\ RetrievedNothing(op.env))
           => (/\ ~op.out.raised
               /\ CallsTo(op.out.calls, "llm") = 0
               /\ op.out.value[4] = <<>>)
    /\ (IsSearch /\ op.out.tuple # None /\ op.out.tuple[1][4] = <<>>)
           => (/\ ~op.out.raised
               /\ CallsTo(op.out.calls, "llm") = 0
               /\ op.out.value.total_documents = 0
               /\ op.out.value.snippets = <<>>)

C3_Witness ==
    /\ IsPipeline
    /\ op.env.embed = "ok"
    /\ op.env.index = [kind |-> "response", vectors |-> <<>>]
    /\ op.out.value = NoAnswerTuple

\* C4: search_documents never raises to its caller; when an exception occurs
\* inside it (in the cache layer, the pipeline call or the result shaping),
\* the result has the summary "Error: " + detail, no snippets and
\* total_documents = 0, also when logging the error fails.
C4_PipelineErrorBoundary ==
    IsSearch =>
        /\ ~op.out.raised
        /\ op.out.exc # None =>
              /\ op.out.value.summary = "Error: " \o op.out.exc[1]
              /\ op.out.value.snippets = <<>>
              /\ op.out.value.total_documents = 0

C4_Witness ==
    /\ IsSearch
    /\ op.out.exc # None
    /\ ~op.world.logok
    /\ op.out.value.total_documents = 0

Relevant(chunk, min_relevance) == 100 - chunk.distance >= min_relevance

KeptChunks(chunks, min_relevance) ==
    SelectSeq(chunks, LAMBDA c : Relevant(c, min_relevance))

\* C5: the prompt is built from every retrieved chunk, and the snippets of a
\* search result are exactly the chunks of the pipeline tuple whose relevance
\* is >= min_relevance, in order, total_documents being their number.
C5_MinRelevancePostSynthesis ==
    /\ (IsPipeline /\ CallsTo(op.out.calls, "llm") = 1)
           => \E i \in 1..Len(op.out.calls) :
                 /\ op.out.calls[i].fn = "llm"
                 /\ [j \in DOMAIN op.out.calls[i].arg.context |->
                        op.out.calls[i].arg.context[j].text]
                    = [j \in DOMAIN op.env.index.vectors |->
                        op.env.index.vectors[j].metadata.text]
    /\ (IsSearch /\ op.out.tuple # None)
           => LET kept == KeptChunks(op.out.tuple[1][4], op.req.min_relevance)
                  shown == op.out.value.snippets
              IN  /\ Len(shown) = Len(kept)
                  /\ \A i \in 1..Len(kept) : shown[i].content = kept[i].metadata.text
                  /\ op.out.value.total_documents = Len(kept)

Requested(client_filters) == {client_filters[i] : i \in 1..Len(client_filters)} \ {"All"}

\* C6: the per-account result mapping and the per-account answer mapping of
\* search_multiple_clients both have exactly the accounts of the list other
\* than "All" as keys, whatever happened to each account's search.
C6_MultiScopeKeyCompleteness ==
    IsMulti =>
        /\ ~op.out.raised
        /\ DOMAIN op.out.value.client_search_results = Requested(op.req.client_filters)
        /\ DOMAIN op.out.value.client_results = Requested(op.req.client_filters)

C6_Witness ==
    /\ IsMulti
    /\ ~op.out.raised
    /\ \E a, b \in DOMAIN op.out.value.client_search_results :
          /\ op.out.tries[a].raised
          /\ ~op.out.tries[b].raised

ReduceContexts(calls) == {calls[i].arg.context : i \in {j \in 1..Len(calls) : calls[j].fn = "reduce"}}

\* C7: an account whose search raised gets an "Error: "-summary result
\* without snippets, every other account gets the result shaped from its
\* tuple, the loop goes through the whole list, and the reduction runs once
\* over one entry per requested account.
C7_MultiScopeFailureIsolation ==
    IsMulti =>
        /\ ~op.out.raised
        /\ DOMAIN op.out.tries = Requested(op.req.client_filters)
        /\ \A c \in Requested(op.req.client_filters) :
              LET t == op.out.tries[c]
                  r == op.out.value.client_search_results[c]
              IN  IF t.raised
                  THEN /\ r.summary = "Error: " \o t.exc
                       /\ r.snippets = <<>>
                       /\ r.total_documents = 0
                  ELSE /\ r.summary = Summary(t.tuple[1][1])
                       /\ Len(r.snippets) = Len(t.tuple[1][4])
                       /\ r.total_documents = Len(t.tuple[1][4])
        /\ CallsTo(op.out.calls, "reduce") = 1
        /\ \A ctx \in ReduceContexts(op.out.calls) :
              /\ Len(ctx) = Cardinality(Requested(op.req.client_filters))
              /\ {ctx[i].client : i \in 1..Len(ctx)} = Requested(op.req.client_filters)

C7_Witness ==
    /\ IsMulti
    /\ ~op.out.raised
    /\ \E i, j \in 1..Len(op.req.client_filters) :
          /\ i < j
          /\ op.req.client_filters[i] # "All"
          /\ op.req.client_filters[j] # "All"
          /\ op.out.tries[op.req.client_filters[i]].raised
          /\ ~op.out.tries[op.req.client_filters[j]].raised
    /\ CallsTo(op.out.calls, "reduce") = 1

IsCachedSearchCall(c) == c.fn = "_cached_search"

IsNotAll(client) == client # "All"

\* C8: search_multiple_clients runs the cached single-scope search for exactly
\* the accounts of the list other than "All", in list order; neither the
\* pipeline nor the cache is asked for "All", and the reduction prompt has no
\* entry for it.
C8_AllExclusion ==
    IsMulti =>
        LET searched == SelectSeq(op.out.calls, IsCachedSearchCall)
            wanted == SelectSeq(op.req.client_filters, IsNotAll)
        IN  /\ [i \in DOMAIN searched |-> searched[i].arg] = wanted
            /\ \A i \in 1..Len(op.out.calls) :
                  op.out.calls[i].fn = "run_query_pipeline"
                      => op.out.calls[i].arg # Some("All")
            /\ \A ctx \in ReduceContexts(op.out.calls) :
                  \A i \in 1..Len(ctx) : ctx[i].client # "All"

C8_Witness ==
    /\ IsMulti
    /\ \E i \in 1..Len(op.req.client_filters) : op.req.client_filters[i] = "All"
    /\ Requested(op.req.client_filters) # {}
    /\ CallsTo(op.out.calls, "_cached_search") = Cardinality(Requested(op.req.client_filters))

\* C9: with caching on and no readable entry for the key, the search invokes
\* the pipeline once, then writes the returned tuple under the key, then
\* returns that tuple; after a successful write the entry equals it.
C9_CacheMissPath ==
    (IsSearch /\ op.caching /\ ~op.out.hit /\ Healthy(op.world.env)) =>
        /\ CallsTo(op.out.calls, "run_query_pipeline") = 1
        /\ CallsTo(op.out.calls, "_save_to_cache") = 1
        /\ op.out.tuple # None
        /\ op.world.wenv = "ok"
              => Some(_get_from_cache(cache_dir, KeyOf(op.req))) = op.out.tuple

\* C10: when the disk refuses the cache write, the search still returns the
\* freshly computed tuple and its result is not an error result.
C10_CacheWriteBestEffort ==
    (IsSearch /\ op.caching /\ ~op.out.hit /\ Healthy(op.world.env)
        /\ op.world.wenv # "ok") =>
        /\ ~op.out.raised
        /\ op.out.exc = None
        /\ op.out.tuple # None

\* C11: while caching is off the cache files are those found when it was
\* switched off, and no search reads or writes them; with caching on again,
\* a search whose entry was readable at switch-off is served from that entry.
C11_DisablePreservesEntries ==
    /\ ~use_cache => dir_at_disable = Some(cache_dir)
    /\ ((IsSearch \/ IsMulti) /\ ~op.caching)
           => (/\ CallsTo(op.out.calls, "_get_from_cache") = 0
               /\ CallsTo(op.out.calls, "_save_to_cache") = 0)
    /\ (IsSearch /\ op.caching /\ dir_at_disable # None
           /\ _get_from_cache(dir_at_disable[1], KeyOf(op.req)) # None)
           => LET entry == _get_from_cache(dir_at_disable[1], KeyOf(op.req))
              IN  /\ op.out.hit
                  /\ CallsTo(op.out.calls, "run_query_pipeline") = 0
                  /\ _get_from_cache(cache_dir, KeyOf(op.req)) = entry
                  /\ Len(entry) = 4 => op.out.tuple = Some(entry)

C11_Witness ==
    /\ IsSearch
    /\ op.caching
    /\ dir_at_disable # None
    /\ _get_from_cache(dir_at_disable[1], KeyOf(op.req)) # None
    /\ op.out.hit

\* C12: when the reduction completion raises, search_multiple_clients still
\* returns; tabular_summary is "Error generating summary: " + detail and the
\* per-account answers and results are those the loop had collected.
C12_ReductionFailureDegrades ==
    (IsMulti /\ op.reduce.kind = "raise") =>
        /\ ~op.out.raised
        /\ op.out.value.tabular_summary = "Error generating summary: " \o op.reduce.text
        /\ op.out.value.client_results = op.out.collected.client_results
        /\ op.out.value.client_search_results = op.out.collected.client_search_results
        /\ DOMAIN op.out.value.client_results = Requested(op.req.client_filters)

C12_Witness ==
    /\ IsMulti
    /\ op.reduce.kind = "raise"
    /\ ~op.out.raised
    /\ \E c \in DOMAIN op.out.value.client_search_results : ~op.out.tries[c].raised
    /\ \E c \in DOMAIN op.out.value.client_search_results : op.out.tries[c].raised

IsEmbedding == op.kind = "get_text_embedding"

\* C14: for a list of n texts get_text_embedding returns n results aligned by
\* position, None exactly where the request failed and the text's vector
\* elsewhere, and issues one request per text whatever failed before it.
C14_EmbeddingBatchIndependence ==
    (IsEmbedding /\ op.texts # <<>>) =>
        LET n == Len(op.texts)
        IN  /\ ~op.out.raised
            /\ op.out.value.is_list
            /\ Len(op.out.value.items) = n
            /\ \A i \in 1..n :
                  op.out.value.items[i] = IF op.responses[i] = "nested"
                                          THEN Some(Vector(op.texts[i])) ELSE None
            /\ [i \in 1..Len(op.out.calls) |-> op.out.calls[i].arg] = op.texts

\* The same for the lists of two or more texts only.
C14_BatchOfSeveral ==
    (IsEmbedding /\ Len(op.texts) >= 2) =>
        LET n == Len(op.texts)
        IN  /\ ~op.out.raised
            /\ op.out.value.is_list
            /\ Len(op.out.value.items) = n
            /\ \A i \in 1..n :
                  op.out.value.items[i] = IF op.responses[i] = "nested"
                                          THEN Some(Vector(op.texts[i])) ELSE None
            /\ [i \in 1..Len(op.out.calls) |-> op.out.calls[i].arg] = op.texts

\* C15: a successful embedding response gives the text's vector whether it
\* has the nested shape or the flat shape; neither gives the marker None.
C15_DualEnvelopeTolerance ==
    (IsEmbedding /\ ~op.out.raised) =>
        \A i \in 1..Len(op.texts) :
            op.responses[i] \in {"nested", "flat"}
                => op.out.value.items[i] = Some(Vector(op.texts[i]))

\* The metadata field a facet is matched on.
FacetField(facet) ==
    IF facet = "client_filter" THEN "client_account_details"
    ELSE IF facet = "document_type_filter" THEN "document_type"
    ELSE IF facet = "account_type_filter" THEN "account_type"
    ELSE IF facet = "solution_line_filter" THEN "solution_line"
    ELSE "related_product"

Facets ==
    {"client_filter", "document_type_filter", "account_type_filter",
     "solution_line_filter", "related_product_filter"}

ConcreteFacet(x) == Truthy(x) /\ x # Some("All")

\* The filter of an index query has a condition on a facet's field exactly
\* when the request gives the facet a concrete value, and is absent when no
\* facet is concrete.
FilterMatches(filter, req) ==
    LET conditions == IF filter = None THEN {} ELSE filter[1]
    IN  /\ \A facet \in Facets \cap DOMAIN req :
              (\E c \in conditions : c[1] = FacetField(facet) /\ c[3] = req[facet][1])
                  <=> ConcreteFacet(req[facet])
        /\ \A c \in conditions : \E facet \in Facets \cap DOMAIN req : c[1] = FacetField(facet)
        /\ filter = None <=> \A facet \in Facets \cap DOMAIN req : ~ConcreteFacet(req[facet])

IndexQueries(calls) == SelectSeq(calls, LAMBDA c : c.fn = "query_vectors")

\* C16: the one index query of a pipeline call, and of a search that is not
\* served from the cache, carries a filter with a condition for exactly the
\* facets (of the five) that have a concrete value, and no filter when none
\* has.
C16_FilterConstruction ==
    /\ IsPipeline
           => (/\ Len(IndexQueries(op.out.calls)) = 1
               /\ FilterMatches(IndexQueries(op.out.calls)[1].arg.filter, op.req))
    /\ (IsSearch /\ ~op.out.hit)
           => (/\ Len(IndexQueries(op.out.calls)) = 1
               /\ FilterMatches(IndexQueries(op.out.calls)[1].arg.filter, op.req))

\* The same for the direct pipeline calls, which take two facets only.
C16_TwoFacets ==
    IsPipeline
        => (/\ Len(IndexQueries(op.out.calls)) = 1
            /\ FilterMatches(IndexQueries(op.out.calls)[1].arg.filter, op.req))

\* C17: generate_presigned_url gives None for a path it cannot split and when
\* signing fails; a search served while signing fails still has one snippet
\* per chunk that passes min_relevance, none with a presigned_url, and the
\* summary and total_documents it has when signing works.
C17_PresignedUrlBestEffort ==
    /\ \A s3_path \in {"s3://b/k.pdf", "k.pdf", ""} :
          /\ generate_presigned_url(s3_path, FALSE) = None
          /\ BucketKey(s3_path) = None => generate_presigned_url(s3_path, TRUE) = None
    /\ (IsSearch /\ op.out.hit /\ op.out.tuple # None /\ ~op.world.s3ok)
           => LET kept == KeptChunks(op.out.tuple[1][4], op.req.min_relevance)
                  shown == op.out.value.snippets
                  signed == search_documents(op.caching, cache_dir, op.req,
                                             [op.world EXCEPT !.s3ok = TRUE]).value
              IN  /\ op.out.exc = None
                  /\ Len(shown) = Len(kept)
                  /\ \A i \in 1..Len(shown) :
                        /\ shown[i].content = kept[i].metadata.text
                        /\ "presigned_url" \notin DOMAIN shown[i].metadata
                  /\ op.out.value.summary = signed.summary
                  /\ op.out.value.total_documents = signed.total_documents

\* What one call of the single-scope pipeline may ask of the three services.
AtMostOnceEach(calls, top_k) ==
    /\ CallsTo(calls, "embedding") <= 1
    /\ CallsTo(calls, "llm") <= 1
    /\ Len(IndexQueries(calls)) <= 1
    /\ \A i \in 1..Len(IndexQueries(calls)) : IndexQueries(calls)[i].arg.topK = top_k

\* C18: one pipeline call, and one search, issues at most one embedding
\* request, one index query (for top_k neighbours) and one completion
\* request, also when one of them fails; search_multiple_clients over n
\* accounts other than "All" issues at most n of each and exactly one
\* reduction completion.
C18_NoRetries ==
    /\ IsPipeline => AtMostOnceEach(op.out.calls, op.req.top_k)
    /\ IsSearch => AtMostOnceEach(op.out.calls, op.req.top_k)
    /\ IsMulti =>
          LET n == Len(SelectSeq(op.req.client_filters, IsNotAll))
          IN  /\ CallsTo(op.out.calls, "embedding") <= n
              /\ Len(IndexQueries(op.out.calls)) <= n
              /\ CallsTo(op.out.calls, "llm") <= n
              /\ CallsTo(op.out.calls, "run_query_pipeline") <= n
              /\ CallsTo(op.out.calls, "reduce") = 1

C18_Witness ==
    /\ IsPipeline
    /\ op.env.llm.kind = "raise"
    /\ op.out.raised
    /\ CallsTo(op.out.calls, "embedding") = 1
    /\ Len(IndexQueries(op.out.calls)) = 1
    /\ CallsTo(op.out.calls, "llm") = 1

\* Positions in the call log where an account's cached search starts.
SearchStarts(calls) == {i \in 1..Len(calls) : calls[i].fn = "_cached_search"}

\* The account whose cached search the call at position i belongs to.
AccountAt(calls, i) ==
    calls[CHOOSE k \in SearchStarts(calls) :
              k <= i /\ \A m \in SearchStarts(calls) : m <= i => m <= k].arg

\* C19: the call log of search_multiple_clients is one block per account
\* other than "All", in list order, each block holding only that account's
\* cache lookup, pipeline call, cache write and link minting; the reduction
\* is the last call and its prompt has an entry for every such account.
C19_AggregatorOrdering ==
    IsMulti =>
        LET calls == op.out.calls
            wanted == SelectSeq(op.req.client_filters, IsNotAll)
            searched == SelectSeq(calls, IsCachedSearchCall)
        IN  /\ [i \in DOMAIN searched |-> searched[i].arg] = wanted
            /\ calls[Len(calls)].fn = "reduce"
            /\ \A i \in 1..(Len(calls) - 1) :
                  /\ calls[i].fn # "reduce"
                  /\ \E k \in SearchStarts(calls) : k <= i
                  /\ calls[i].fn = "run_query_pipeline"
                        => calls[i].arg = Some(AccountAt(calls, i))
                  /\ calls[i].fn \in {"_get_from_cache", "_save_to_cache"}
                        => calls[i].arg =
                             _get_cache_key(op.req.query, AccountAt(calls, i),
                                            OrNoneString(op.req.document_type_filter),
                                            OrNoneString(op.req.account_type_filter),
                                            OrNoneString(op.req.solution_line_filter),
                                            OrNoneString(op.req.related_product_filter),
                                            op.req.top_k)
            /\ \A ctx \in ReduceContexts(calls) :
                  {ctx[i].client : i \in 1..Len(ctx)} = Requested(op.req.client_filters)

C19_Witness ==
    /\ IsMulti
    /\ op.caching
    /\ op.req.client_filters = <<"B", "A">>
    /\ CallsTo(op.out.calls, "_get_from_cache") = 2
    /\ CallsTo(op.out.calls, "generate_presigned_url") >= 1
    /\ op.out.calls[Len(op.out.calls)].fn = "reduce"

\* C20: with caching off a search does not look into the cache, runs the
\* pipeline once (its embedding request included) even when a readable entry
\* exists for the key, and returns the tuple the pipeline computed.
C20_CacheBypassWhenDisabled ==
    (IsSearch /\ ~op.caching /\ Healthy(op.world.env)) =>
        /\ ~op.out.hit
        /\ CallsTo(op.out.calls, "_get_from_cache") = 0
        /\ CallsTo(op.out.calls, "run_query_pipeline") = 1
        /\ CallsTo(op.out.calls, "embedding") = 1
        /\ op.out.tuple =
              Some(run_query_pipeline(op.req.query, op.req.client_filter,
                                      op.req.document_type_filter, op.req.top_k,
                                      op.world.env).value)

\* C23: when the pipeline returns early because retrieval gave no chunk, the
\* returned tuple is the no-answer sentinel, an empty citation map, the time
\* elapsed since the pipeline started its timer, and an empty chunk list.
C23_ShortCircuitLatency ==
    (IsPipeline /\ RetrievedNothing(op.env)) =>
        /\ ~op.out.raised
        /\ op.out.value = <<None, EmptyDict, op.env.elapsed, <<>>>>

\* The same without the latency component.
C23_ShortCircuitShape ==
    (IsPipeline /\ RetrievedNothing(op.env)) =>
        /\ ~op.out.raised
        /\ op.out.value[1] = None
        /\ op.out.value[2] = EmptyDict
        /\ op.out.value[4] = <<>>

PromptsAsked(calls) == SelectSeq(calls, LAMBDA c : c.fn = "llm")

CitationMarker(i) == "[" \o ToString(i) \o "]"

\* C24: for a chunk list of length n the prompt shows the i-th chunk (in
\* retrieval order) under the marker "[i]" with its source path, and the
\* citation map has exactly the keys "[1]".."[n]", "[i]" giving the metadata
\* of the i-th chunk; that map is the one the pipeline returns.
C24_CitationNumbering ==
    (IsPipeline /\ PromptsAsked(op.out.calls) # <<>>) =>
        LET vectors == op.env.index.vectors
            n == Len(vectors)
            built == PromptsAsked(op.out.calls)[1].arg
        IN  /\ Len(built.context) = n
            /\ \A i \in 1..n :
                  /\ built.context[i].ref = CitationMarker(i)
                  /\ built.context[i].source = vectors[i].metadata.s3_path
                  /\ built.context[i].text = vectors[i].metadata.text
            /\ DOMAIN built.source_refs = {CitationMarker(i) : i \in 1..n}
            /\ \A i \in 1..n : built.source_refs[CitationMarker(i)] = vectors[i].metadata
            /\ ~op.out.raised => op.out.value[2] = built.source_refs

C24_Witness ==
    /\ IsPipeline
    /\ ~op.out.raised
    /\ Len(PromptsAsked(op.out.calls)) = 1
    /\ Len(op.env.index.vectors) = 2
    /\ op.env.index.vectors[1] # op.env.index.vectors[2]
    /\ DOMAIN op.out.value[2] = {"[1]", "[2]"}

\* The search the caller makes next with the request req, caching on.
SearchAgain(req, world) == search_documents(TRUE, cache_dir, req, world)

HealthyWorld == [env |-> HealthyEnv, wenv |-> "ok", s3ok |-> TRUE, logok |-> TRUE]

\* C25: with caching on, a search whose retrieval ends without a chunk
\* (embedding failure, index error, no neighbour) gets the no-answer tuple and
\* stores it; a later search with the same parameters, the services being
\* healthy again, is served that tuple from the cache without an embedding
\* request or an index query.
C25_EmptyOutcomesCached ==
    (/\ IsSearch
     /\ op.caching
     /\ _get_from_cache(op.before, KeyOf(op.req)) = None
     /\ RetrievedNothing(op.world.env)
     /\ op.world.wenv = "ok") =>
        LET later == SearchAgain(op.req, HealthyWorld)
        IN  /\ op.out.tuple # None
            /\ op.out.tuple[1][1] = None
            /\ op.out.tuple[1][4] = <<>>
            /\ _get_from_cache(cache_dir, KeyOf(op.req)) = op.out.tuple[1]
            /\ later.hit
            /\ later.tuple = op.out.tuple
            /\ CallsTo(later.calls, "run_query_pipeline") = 0
            /\ CallsTo(later.calls, "embedding") = 0
            /\ CallsTo(later.calls, "query_vectors") = 0

\* Whether the pipeline call a cached search makes on a miss raises.
PipelineRaises(req, env) ==
    CallPipeline(CachedSearchKwargs, req.query, OrNoneString(req.client_filter),
                 OrNoneString(req.document_type_filter), req.top_k, env).raised

\* C26: when the pipeline call of a cache miss raises, the search writes
\* nothing (the cache files are those it found, no entry for the key appears
\* or changes) and the next search with the same parameters misses and
\* invokes the pipeline again.
C26_RaisedFailuresNotCached ==
    (/\ IsSearch
     /\ op.caching
     /\ _get_from_cache(op.before, KeyOf(op.req)) = None
     /\ PipelineRaises(op.req, op.world.env)) =>
        /\ CallsTo(op.out.calls, "run_query_pipeline") = 1
        /\ CallsTo(op.out.calls, "_save_to_cache") = 0
        /\ cache_dir = op.before
        /\ \A env \in SearchEnvs(op.req.top_k) :
              LET later == SearchAgain(op.req, [op.world EXCEPT !.env = env])
              IN  /\ ~later.hit
                  /\ CallsTo(later.calls, "run_query_pipeline") = 1

C26_Witness ==
    /\ IsSearch
    /\ op.caching
    /\ CachePath(KeyOf(op.req)) \notin DOMAIN op.before
    /\ PipelineRaises(op.req, op.world.env)
    /\ op.world.wenv = "ok"
    /\ op.out.exc # None
    /\ CachePath(KeyOf(op.req)) \notin DOMAIN cache_dir

\* The request req asked with another relevance threshold.
WithMinRelevance(req, m) == [req EXCEPT !.min_relevance = m]

\* C27: after a search that missed the cache, against healthy services and a
\* writable disk, a search differing only in min_relevance has the same key,
\* is served from the entry the first one wrote without a pipeline call, has
\* the same summary, and its snippets are the stored chunks whose relevance
\* is >= its own min_relevance.
C27_MinRelevanceOutsideKey ==
    (/\ IsSearch
     /\ op.caching
     /\ _get_from_cache(op.before, KeyOf(op.req)) = None
     /\ Healthy(op.world.env)
     /\ op.world.wenv = "ok") =>
        \A m \in MinRelevances \ {op.req.min_relevance} :
            LET second == SearchAgain(WithMinRelevance(op.req, m), op.world)
                stored == _get_from_cache(cache_dir, KeyOf(op.req))
            IN  /\ KeyOf(WithMinRelevance(op.req, m)) = KeyOf(op.req)
                /\ second.hit
                /\ CallsTo(second.calls, "run_query_pipeline") = 0
                /\ second.tuple = Some(stored)
                /\ second.value.summary = op.out.value.summary
                /\ Len(second.value.snippets) = Len(KeptChunks(stored[4], m))
                /\ \A i \in 1..Len(second.value.snippets) :
                      second.value.snippets[i].content
                          = KeptChunks(stored[4], m)[i].metadata.text

\* The part on the key alone: min_relevance is no component of it.
C27_SameKey ==
    IsSearch => \A m \in MinRelevances :
                    KeyOf(WithMinRelevance(op.req, m)) = KeyOf(op.req)

\* The file of the key was on disk, and not readable, when the search began.
FoundUnreadable ==
    /\ CachePath(KeyOf(op.req)) \in DOMAIN op.before
    /\ ~op.before[CachePath(KeyOf(op.req))].readable

\* C28: with caching on, a search that finds an entry it cannot deserialize
\* does not raise from the lookup, is a miss, runs the pipeline once and,
\* the disk being writable, leaves the computed tuple under the key, so that
\* the next search with the same parameters hits.
C28_UnreadableEntryIsMiss ==
    (IsSearch /\ op.caching /\ FoundUnreadable /\ Healthy(op.world.env)) =>
        /\ ~op.out.hit
        /\ CallsTo(op.out.calls, "_get_from_cache") = 1
        /\ CallsTo(op.out.calls, "run_query_pipeline") = 1
        /\ op.world.wenv = "ok" =>
              /\ op.out.tuple # None
              /\ Some(_get_from_cache(cache_dir, KeyOf(op.req))) = op.out.tuple
              /\ SearchAgain(op.req, op.world).hit

\* The part on the lookup alone: the unreadable entry is a miss and the
\* pipeline is called.
C28_LookupIsMiss ==
    (IsSearch /\ op.caching /\ FoundUnreadable) =>
        /\ ~op.out.hit
        /\ CallsTo(op.out.calls, "_get_from_cache") = 1
        /\ CallsTo(op.out.calls, "run_query_pipeline") = 1

\* The objects some file of the directory held in full when the process
\* started, and with them the tuples the threads hand to _save_to_cache.
SeedObjects ==
    UNION {{d[f].obj : f \in {g \in DOMAIN d : d[g].readable}} : d \in SeedDirs}

StoredObjects == SeedObjects \cup ThreadTuples

LookupReturned(t) == threads[t].pc = "done" /\ threads[t].fn = "_get_from_cache"

C21_NoPrefixObserved ==
    \A t \in Threads :
        LookupReturned(t) =>
            /\ ~threads[t].ret.raised
            /\ threads[t].ret.value = None
                   \/ threads[t].ret.value \in SeedObjects
                   \/ Len(threads[t].ret.value) = PickleLen

SearchReturned(t) == threads[t].pc = "done" /\ threads[t].fn = "_cached_search"

\* C22: when two threads have run the cached search for the same key at the
\* same time and both missed and called the pipeline, each has returned a
\* complete computed tuple, and the key has one readable entry, equal to the
\* tuple one of them wrote.
C22_ConcurrentIdenticalRequests ==
    \A t, u \in Threads :
        (/\ t # u
         /\ SearchReturned(t) /\ SearchReturned(u)
         /\ threads[t].key = threads[u].key
         /\ threads[t].called /\ threads[u].called) =>
            /\ ~threads[t].ret.raised
            /\ Len(threads[t].ret.value) = PickleLen
            /\ _get_from_cache(cache_dir, threads[t].key)
                   \in {threads[t].ret.value, threads[u].ret.value}

C22_BothMissed ==
    \E t, u \in Threads :
        /\ t # u
        /\ SearchReturned(t) /\ SearchReturned(u)
        /\ threads[t].key = threads[u].key
        /\ threads[t].called /\ threads[u].called
        /\ CachePath(threads[t].key) \notin DOMAIN cache_dir

\* ------------------------------------------------ the browser session
\* st.session_state as a dict: a key is set, or absent.
Get(ss, key, default) == IF key \in DOMAIN ss THEN ss[key] ELSE default

Delete(ss, key) == [k \in DOMAIN ss \ {key} |-> ss[k]]

SetDefault(ss, key, value) == IF key \in DOMAIN ss THEN ss ELSE Put(ss, key, value)

\* `key in st.session_state and st.session_state[key]` for a result slot: a
\* result object is truthy, None is not.
Populated(ss, slot) == slot \in DOMAIN ss /\ ss[slot] # None

Slots == {"all_questions_results", "search_results", "multi_search_results"}

\* What one script run leaves: the session state, the cache directory, the
\* page body and the results section it drew, whether it ended in st.rerun(),
\* and the search result it stored, if any.
Outcome(ss, dir, body, section, results, rerun, stored) ==
    [ss |-> ss, dir |-> dir, body |-> body, section |-> section, results |-> results,
     rerun |-> rerun, stored |-> stored]

\* The keys of utils/session_state.py that the pages read.
initialize_session_state(ss) ==
    SetDefault(SetDefault(ss, "search_results", None), "current_page", "search")

check_authentication(ss) == Get(ss, "authenticated", FALSE)

\* views/login.py:96-104; the st.rerun() of line 105 is the caller's rerun.
logout(ss) ==
    Put(Delete(Delete(Delete(ss, "authenticated"), "username"), "is_admin"),
        "current_page", "login")

\* What the user does to start a script run: nothing (a rerun, or a widget
\* without a handler), a submit of the login form with the administrator's
\* credentials, the user's, or neither, or a click on a button.
Events ==
    {"none", "submit admin", "submit user", "submit wrong", "Analytics",
     "Cache management", "Search", "Logout", "Clear", "Back to Search", "Check now",
     "Search documents"}

LoggedIn(ss, username, is_admin, page) ==
    Put(Put(Put(Put(ss, "authenticated", TRUE), "is_admin", is_admin),
            "username", username), "current_page", page)

show_login_page(ss, dir, event) ==
    IF event = "submit admin"
    THEN Outcome(LoggedIn(ss, "admin", TRUE, "analytics"), dir, "login", "none", None,
                 TRUE, None)
    ELSE IF event = "submit user"
    THEN Outcome(LoggedIn(ss, "user", FALSE, "server_status"), dir, "login", "none", None,
                 TRUE, None)
    ELSE Outcome(ss, dir, "login", "none", None, FALSE, None)

\* The buttons of the sidebar: what the clicked one does to the session, and
\* whether it ends the run in st.rerun().
Clicked(ss) == [ss |-> ss, rerun |-> TRUE]

NotClicked(ss) == [ss |-> ss, rerun |-> FALSE]

show_sidebar(ss, event) ==
    IF Get(ss, "authenticated", FALSE) /\ Get(ss, "is_admin", FALSE)
       /\ event = "Analytics"
    THEN Clicked(Put(ss, "current_page", "analytics"))
    ELSE IF Get(ss, "authenticated", FALSE) /\ Get(ss, "is_admin", FALSE)
            /\ event = "Cache management"
    THEN Clicked(Put(ss, "current_page", "cache_management"))
    ELSE IF Get(ss, "authenticated", FALSE) /\ Get(ss, "is_admin", FALSE)
            /\ event = "Search"
    THEN Clicked(Put(ss, "current_page",
                     IF ~Get(ss, "server_ready", FALSE) THEN "server_status" ELSE "search"))
    ELSE IF Get(ss, "authenticated", FALSE) /\ event = "Logout"
    THEN Clicked(logout(ss))
    ELSE IF event = "Clear"
    THEN Clicked(Delete(Delete(Delete(ss, "search_results"), "multi_search_results"),
                        "all_questions_results"))
    ELSE NotClicked(ss)

show_top_nav(side, event) ==
    IF side.ss["current_page"] = "document_viewer" /\ event = "Back to Search"
    THEN Clicked(Put(side.ss, "current_page", "search"))
    ELSE side

\* app.py:296-310: the full sidebar and the top bar, or the sidebar of the
\* server status page with its logout button.
Chrome(ss, event) ==
    IF ss["current_page"] \notin {"login", "server_status"}
    THEN IF show_sidebar(ss, event).rerun THEN show_sidebar(ss, event)
         ELSE show_top_nav(NotClicked(ss), event)
    ELSE IF ss["current_page"] = "server_status" /\ Get(ss, "authenticated", FALSE)
            /\ event = "Logout"
    THEN Clicked(logout(ss))
    ELSE NotClicked(ss)

\* What check_server_health answers when the page runs it; "not due" when the
\* last check is less than a minute old and the page does not check.
Healths == {"healthy", "unhealthy", "not due"}

show_server_status_page(ss, dir, event, health) ==
    IF health = "healthy"
    THEN Outcome(Put(Put(ss, "server_ready", TRUE), "current_page", "search"), dir,
                 "server_status", "none", None, TRUE, None)
    ELSE IF health = "unhealthy"
    THEN Outcome(ss, dir, "server_status", "none", None, TRUE, None)
    ELSE Outcome(ss, dir, "server_status", "none", None, event = "Check now", None)

\* ------------------------------------------------ the search page
\* What the widgets of the page hold when the run starts, and what the health
\* check of the server status page answers in this run.  The filters other
\* than the accounts stand at "All"; num_results is MaxChunks.
PageInputs ==
    {[run_all_questions |-> a, final_query |-> q, selected_clients |-> L, health |-> h] :
        a \in BOOLEAN, q \in {None, Some("q")}, L \in {<<>>, <<"A">>, <<"A", "B">>},
        h \in Healths}

\* backend.get_predefined_queries(): one question stands for the list.
PredefinedQueries == <<"q">>

PageRequest(query, client) == Request(query, Some(client), None, None, None, None, MaxChunks, 0)

PageMultiRequest(query, clients) ==
    [query |-> query, client_filters |-> clients, document_type_filter |-> None,
     account_type_filter |-> None, solution_line_filter |-> None,
     related_product_filter |-> None, top_k |-> MaxChunks]

PageMultiWorld(clients) ==
    [envs |-> [i \in 1..Len(clients) |-> HealthyEnv], wenv |-> "ok", s3ok |-> TRUE,
     reduce |-> HealthyEnv.llm, elapsed |-> 1200]

\* legal_search.py:70-90: one account of the inner loop; a raised search is
\* recorded as None.
AllQuestionsRecord(found, client, out) ==
    [dir |-> out.dir,
     found |-> Put(found, client, IF out.raised THEN None ELSE Some(out.value))]

RECURSIVE AllQuestionsLoop(_, _, _, _, _, _)
AllQuestionsNext(caching, query, clients, i, acc) ==
    AllQuestionsLoop(caching, acc.dir, query, clients, i + 1, acc.found)

AllQuestionsLoop(caching, dir, query, clients, i, found) ==
    IF i > Len(clients)
    THEN [dir |-> dir, found |-> found]
    ELSE AllQuestionsNext(caching, query, clients, i,
             AllQuestionsRecord(found, clients[i],
                 search_documents(caching, dir, PageRequest(query, clients[i]),
                                  HealthyWorld)))

\* The dict of legal_search.py:227-232, without the one-word answers and the
\* time, which are derived from search_results.
AllQuestionsResults(clients, loop) ==
    [dir |-> loop.dir,
     value |-> [search_results |-> [q \in {PredefinedQueries[1]} |-> loop.found],
                clients |-> clients]]

_run_all_questions_search(caching, dir, clients) ==
    AllQuestionsResults(clients,
        AllQuestionsLoop(caching, dir, PredefinedQueries[1], clients, 1, EmptyDict))

\* What the search button's handler leaves: session, directory, the stored
\* result with its kind, and whether the backend call raised.
Handled(ss, dir, stored, raised) ==
    [ss |-> ss, dir |-> dir, stored |-> stored, raised |-> raised]

\* legal_search.py:220-234
StoreAllQuestions(ss, all) ==
    Handled(Put(Put(Put(ss, "all_questions_results", Some(all.value)),
                    "search_results", None), "multi_search_results", None),
            all.dir, Some([mode |-> "all_questions", value |-> all.value]), FALSE)

\* legal_search.py:236-248
StoreMulti(ss, out) ==
    IF out.raised THEN Handled(ss, out.dir, None, TRUE)
    ELSE Handled(Put(Put(ss, "multi_search_results", Some(out.value)),
                     "search_results", None),
                 out.dir, Some([mode |-> "multi", value |-> out.value]), FALSE)

\* legal_search.py:249-263
StoreSingle(ss, out) ==
    IF out.raised THEN Handled(ss, out.dir, None, TRUE)
    ELSE Handled(Put(Put(ss, "search_results", Some(out.value)),
                     "multi_search_results", None),
                 out.dir, Some([mode |-> "single", value |-> out.value]), FALSE)

SearchButton(ss, dir, caching, inp) ==
    IF inp.run_all_questions
    THEN StoreAllQuestions(ss, _run_all_questions_search(caching, dir, inp.selected_clients))
    ELSE IF Len(inp.selected_clients) > 1
    THEN StoreMulti(ss, search_multiple_clients(caching, dir,
                            PageMultiRequest(inp.final_query[1], inp.selected_clients),
                            PageMultiWorld(inp.selected_clients)))
    ELSE StoreSingle(ss, search_documents(caching, dir,
                             PageRequest(inp.final_query[1], inp.selected_clients[1]),
                             HealthyWorld))

\* legal_search.py:326-427: the section of results the page draws.  An
\* exception of the handler ends the run before this.
Display(h) ==
    IF h.raised
    THEN Outcome(h.ss, h.dir, "search", "exception", None, FALSE, None)
    ELSE IF Populated(h.ss, "all_questions_results")
    THEN Outcome(h.ss, h.dir, "search", "all_questions", h.ss["all_questions_results"],
                 FALSE, h.stored)
    ELSE IF Populated(h.ss, "search_results")
    THEN Outcome(h.ss, h.dir, "search", "single", h.ss["search_results"], FALSE, h.stored)
    ELSE IF Populated(h.ss, "multi_search_results")
    THEN Outcome(h.ss, h.dir, "search", "multi", h.ss["multi_search_results"], FALSE,
                 h.stored)
    ELSE Outcome(h.ss, h.dir, "search", "none", None, FALSE, h.stored)

show_legal_search_page(ss, dir, caching, event, inp) ==
    IF event = "Search documents"
       /\ (inp.run_all_questions \/ Truthy(inp.final_query))
       /\ inp.selected_clients # <<>>
    THEN Display(SearchButton(ss, dir, caching, inp))
    ELSE Display(Handled(ss, dir, None, FALSE))

\* ------------------------------------------------ the script
\* app.py:312-338
Dispatch(ss, dir, caching, event, inp) ==
    IF ss["current_page"] = "server_status"
    THEN show_server_status_page(ss, dir, event, inp.health)
    ELSE IF ss["current_page"] = "search"
    THEN show_legal_search_page(ss, dir, caching, event, inp)
    ELSE IF ss["current_page"] = "document_viewer"
    THEN Outcome(ss, dir, "document_viewer", "none", None, FALSE, None)
    ELSE IF ss["current_page"] \in {"analytics", "cache_management"}
    THEN IF Get(ss, "is_admin", FALSE)
         THEN Outcome(ss, dir, ss["current_page"], "none", None, FALSE, None)
         ELSE Outcome(Put(ss, "current_page", "search"), dir, "access denied", "none",
                      None, TRUE, None)
    ELSE Outcome(ss, dir, "none", "none", None, FALSE, None)

\* A button of the sidebar or the top bar ends the run before the page body.
AfterChrome(side, dir, caching, event, inp) ==
    IF side.rerun THEN Outcome(side.ss, dir, "none", "none", None, TRUE, None)
    ELSE Dispatch(side.ss, dir, caching, event, inp)

\* app.py:291-294
Redirect(ss) ==
    IF ~ss["server_ready"]
       /\ ss["current_page"] \notin {"login", "server_status", "analytics", "cache_management"}
    THEN Put(ss, "current_page", "server_status")
    ELSE ss

\* app.py:291-338: the run of an authenticated session.
MainApp(ss, dir, caching, event, inp) ==
    AfterChrome(Chrome(Redirect(ss), event), dir, caching, event, inp)

\* app.py:262-269
MainDefaults(ss) ==
    SetDefault(SetDefault(SetDefault(SetDefault(ss, "current_page", "login"),
                                     "server_ready", FALSE),
                          "authenticated", FALSE), "is_admin", FALSE)

\* main() without the authentication check of lines 284-289.
main_without_authentication(ss, dir, caching, event, inp) ==
    MainApp(MainDefaults(ss), dir, caching, event, inp)

main(ss, dir, caching, event, inp) ==
    IF ~check_authentication(MainDefaults(ss))
    THEN show_login_page(Put(MainDefaults(ss), "current_page", "login"), dir, event)
    ELSE MainApp(MainDefaults(ss), dir, caching, event, inp)

\* One run of app.py, top to bottom.
Script(ss, dir, caching, event, inp) ==
    main(initialize_session_state(ss), dir, caching, event, inp)

ScriptRun(event, inp, out) ==
    /\ session_state' = out.ss
    /\ cache_dir' = out.dir
    /\ screen' = [event |-> event, body |-> out.body, section |-> out.section,
                 results |-> out.results, rerun |-> out.rerun]
    /\ latest_search' = IF out.stored # None THEN out.stored ELSE latest_search
    /\ UNCHANGED <<use_cache, op, last_search, dir_at_disable, threads>>

\* The user loads the page or touches a widget: the script runs with it.
UserEvent ==
    /\ ~screen.rerun
    /\ \E event \in Events, inp \in PageInputs :
          ScriptRun(event, inp, Script(session_state, cache_dir, use_cache, event, inp))

\* st.rerun(): the script runs again at once, no widget touched.
Rerun ==
    /\ screen.rerun
    /\ \E inp \in PageInputs :
          ScriptRun("none", inp, Script(session_state, cache_dir, use_cache, "none", inp))

AppNext ==
    \/ UserEvent
    \/ Rerun

AppSpec == Init /\ [][AppNext]_vars

C29_SingleAndMultiExclusive ==
    ~(Populated(session_state, "search_results")
      /\ Populated(session_state, "multi_search_results"))

\* C29, the case that fails: the latest search was a single- or multi-account
\* one, and the page draws the all-questions section of an earlier search.
C29_StaleAllQuestions ==
    /\ latest_search # None
    /\ latest_search[1].mode \in {"single", "multi"}
    /\ screen.section = "all_questions"
    /\ Cardinality({slot \in Slots : Populated(session_state, slot)}) = 2

\* C30: over any sequence of logins, logouts, navigation clicks and reruns,
\* a run of an unauthenticated session draws the login page and nothing else;
\* the analytics and cache-management pages are drawn only for a session that
\* is authenticated with is_admin true; a logout removes authenticated,
\* is_admin and username and sets the current page to "login".  Each step is a
\* script run: session_state is the session it starts in, the primed
\* variables what it drew and left.
C30_AccessControl ==
    [][/\ ~check_authentication(session_state) => screen'.body = "login"
       /\ screen'.body \in {"analytics", "cache_management"} =>
             /\ check_authentication(session_state)
             /\ Get(session_state, "is_admin", FALSE)
             /\ check_authentication(session_state')
             /\ Get(session_state', "is_admin", FALSE)
       /\ screen'.event = "Logout" /\ check_authentication(session_state) =>
             /\ {"authenticated", "is_admin", "username"} \cap DOMAIN session_state' = {}
             /\ session_state'["current_page"] = "login"
       /\ ~check_authentication(session_state') => ~Get(session_state', "is_admin", FALSE)
      ]_vars

\* An administrator has logged out: the keys are gone, the rerun is pending.
C30_Witness ==
    /\ screen.event = "Logout"
    /\ screen.rerun
    /\ "authenticated" \notin DOMAIN session_state
    /\ session_state["current_page"] = "login"

\* An administrator is shown the analytics page.
C30_AdminSeesAnalytics ==
    /\ screen.body = "analytics"
    /\ Get(session_state, "is_admin", FALSE)

====
